---- MODULE Spec2Model ----
(***************************************************************************)
(* Burnout risk engine of Respire (src/analysis.py).                       *)
(*                                                                         *)
(* Numbers.  The Python code computes in binary floating point.  The model *)
(* computes the same expressions in exact rational arithmetic: a number is *)
(* a pair <<n, d>> with d > 0 in lowest terms.  Absent values (Python      *)
(* None) are the empty sequence <<>>, present values are <<v>>.            *)
(***************************************************************************)
EXTENDS Integers, Sequences, FiniteSets, TLC

VARIABLES
    store,        \* daily_metrics table: date -> <<>> (no row) or <<record>>
    metrics,      \* argument `metrics` of the last call
    all_records,  \* argument `all_records` of that call
    result,       \* its return value: <<>> (None) or <<value>>
    locals,       \* its local variables (weights, component scores)
    days_back,    \* argument days_back of the last call that takes one
    decay_factor, \* argument of the last calculate_time_exponential_weights call
    weights_out,  \* its return value
    pc,           \* "idle" before a call, "done" after it
    batch,        \* a batch recomputation: the table it started from and, for
                  \* each date, the position and local variables of its job
    health_metrics, \* argument of the last BurnoutCalculator.calculate_overall_risk
    mood_ratings,   \* its mood_ratings argument
    risk_analysis,  \* the dictionary it returned, <<>> before the call
    burnout_scores, \* burnout_scores table of the API, one user's rows in
                    \* insertion order
    now,            \* the clock of the API's server, in days
    requests        \* the API requests in flight: position and local variables

vars == <<store, metrics, all_records, result, locals, days_back, decay_factor,
          weights_out, pc, batch, health_metrics, mood_ratings, risk_analysis,
          burnout_scores, now, requests>>

-----------------------------------------------------------------------------
(* Exact rational arithmetic *)

None == <<>>

Some(x) == <<x>>

Abs(i) == IF i < 0 THEN -i ELSE i

RECURSIVE GCD(_, _)
GCD(a, b) == IF b = 0 THEN a ELSE GCD(b, a % b)

Norm(n, d) == LET g == GCD(Abs(n), d) IN <<n \div g, d \div g>>

R(i) == <<i, 1>>

Q(n, d) == Norm(n, d)

RAdd(x, y) ==
    LET l == (x[2] \div GCD(x[2], y[2])) * y[2]
    IN  Norm(x[1] * (l \div x[2]) + y[1] * (l \div y[2]), l)

RNeg(x) == <<-x[1], x[2]>>

RSub(x, y) == RAdd(x, RNeg(y))

RMul(x, y) ==
    LET g1 == GCD(Abs(x[1]), y[2])
        g2 == GCD(Abs(y[1]), x[2])
    IN  Norm((x[1] \div g1) * (y[1] \div g2), (x[2] \div g2) * (y[2] \div g1))

\* Python's ZeroDivisionError: evaluating it stops the check with an error.
Raise(x) == x \div 0

\* x / y
RDiv(x, y) ==
    IF y[1] > 0 THEN RMul(x, <<y[2], y[1]>>)
    ELSE IF y[1] < 0 THEN RMul(x, <<-y[2], -y[1]>>)
    ELSE Raise(x)

RLt(x, y) ==
    LET l == (x[2] \div GCD(x[2], y[2])) * y[2]
    IN  x[1] * (l \div x[2]) < y[1] * (l \div y[2])

RLe(x, y) == ~RLt(y, x)

RMin(x, y) == IF RLt(y, x) THEN y ELSE x

RMax(x, y) == IF RLt(x, y) THEN y ELSE x

RAbs(x) == <<Abs(x[1]), x[2]>>

RECURSIVE RPow(_, _)
RPow(x, k) == IF k = 0 THEN R(1) ELSE RMul(x, RPow(x, k - 1))

RECURSIVE RSum(_)
RSum(s) == IF s = <<>> THEN R(0) ELSE RAdd(s[1], RSum(Tail(s)))

Reverse(s) == [i \in 1..Len(s) |-> s[Len(s) + 1 - i]]

-----------------------------------------------------------------------------
(* calculate_time_exponential_weights(days_back, decay_factor=0.8) *)

DefaultDecay == Q(8, 10)

\* faulty variant: the weights are returned without the normalization
TimeWeightsUnnormalized(n, decay) ==
    Reverse([i \in 1..n |-> RPow(decay, i - 1)])

CalculateTimeExponentialWeights(n, decay) ==
    LET raw_weights == [i \in 1..n |-> RPow(decay, i - 1)]
        reversed    == Reverse(raw_weights)
        sum_weights == RSum(reversed)
    IN  [i \in 1..n |-> RDiv(reversed[i], sum_weights)]

-----------------------------------------------------------------------------
(* Daily records.  A record is a function from field names to <<>> (absent *)
(* or null) or <<v>>.  Integer fields hold v itself; strain, a float on    *)
(* the 0-21 scale, is held in tenths.                                      *)

Fields ==
    {"date", "recovery_score", "mood_rating", "hrv", "strain", "sleep_quality",
     "sleep_efficiency", "sleep_consistency", "total_sleep_time",
     "deep_sleep_time", "rem_sleep_time", "burnout_current", "burnout_trend"}

EmptyDict == [f \in Fields |-> None]

Has(m, f) == m[f] # None

Val(m, f) == IF f = "strain" THEN Q(m[f][1], 10) ELSE R(m[f][1])

\* Python truthiness of an entry of all_metrics: not None and not {}
Truthy(o) == o # None /\ o[1] # EmptyDict

HasField(o, f) == Truthy(o) /\ Has(o[1], f)

Clamp(lo, hi, x) == RMax(lo, RMin(hi, x))

-----------------------------------------------------------------------------
(* calculate_missing_data_weights(metrics_list) *)

KeyMetrics == {"recovery_score", "mood_rating", "hrv", "strain"}

\* faulty variant: a stored burnout_current counts as a fifth key metric
CompletenessCountingScore(o) ==
    IF o = None THEN R(0)
    ELSE Q(Cardinality({f \in KeyMetrics \cup {"burnout_current"} : Has(o[1], f)}),
           Cardinality(KeyMetrics) + 1)

\* faulty variant: a missing day is not skipped and counts as complete
CompletenessOfMissingDay(o) ==
    IF o = None THEN R(1)
    ELSE Q(Cardinality({f \in KeyMetrics : Has(o[1], f)}), Cardinality(KeyMetrics))

Completeness(o) ==
    IF o = None THEN R(0)
    ELSE Q(Cardinality({f \in KeyMetrics : Has(o[1], f)}), Cardinality(KeyMetrics))

CalculateMissingDataWeights(metrics_list) ==
    [i \in 1..Len(metrics_list) |-> Completeness(metrics_list[i])]

-----------------------------------------------------------------------------
(* get_prior_metrics(metrics, all_records, days_back) *)

SetMax(S) == CHOOSE x \in S : \A y \in S : y <= x

\* faulty variant: a day without a record is left out instead of kept as a gap
GetPriorMetricsOmittingGaps(m, records, n) ==
    IF m = EmptyDict \/ ~Has(m, "date") THEN <<>>
    ELSE IF records = <<>> THEN <<>>
    ELSE LET found == [i \in 1..n |->
                         {k \in 1..Len(records) :
                             Has(records[k], "date")
                                 /\ records[k]["date"][1] = m["date"][1] - i}]
             days  == {i \in 1..n : found[i] # {}}
             RECURSIVE Kept(_)
             Kept(i) == IF i > n THEN <<>>
                        ELSE (IF i \in days THEN <<Some(records[SetMax(found[i])])>>
                              ELSE <<>>) \o Kept(i + 1)
         IN  Kept(1)

GetPriorMetrics(m, records, n) ==
    IF m = EmptyDict \/ ~Has(m, "date") THEN <<>>
    ELSE IF records = <<>> THEN <<>>
    ELSE [i \in 1..n |->
            LET prior_date == m["date"][1] - i
                hits == {k \in 1..Len(records) :
                            Has(records[k], "date") /\ records[k]["date"][1] = prior_date}
            IN  IF hits = {} THEN None ELSE Some(records[SetMax(hits)])]

-----------------------------------------------------------------------------------------------------------------------------------------------------
(* compute_sleep_quality_score(metrics) *)

\* 100 - min(100, abs(pct - ideal) * 5)
StageScoreOf(pct, ideal) ==
    RSub(R(100), RMin(R(100), RMul(RAbs(RSub(pct, R(ideal))), R(5))))

StageScore(m, f, ideal) ==
    StageScoreOf(RMul(RDiv(Val(m, f), Val(m, "total_sleep_time")), R(100)), ideal)

\* the (score, weight) pairs appended to scores and weights, in order
SleepScores(m) ==
       (IF Has(m, "sleep_quality")
          THEN << <<Val(m, "sleep_quality"), Q(4, 10)>> >> ELSE <<>>)
    \o (IF Has(m, "sleep_efficiency")
          THEN << <<Val(m, "sleep_efficiency"), Q(3, 10)>> >> ELSE <<>>)
    \o (IF Has(m, "sleep_consistency")
          THEN << <<Val(m, "sleep_consistency"), Q(3, 10)>> >> ELSE <<>>)
    \o (IF Has(m, "total_sleep_time") /\ m["total_sleep_time"][1] > 0
          THEN    (IF Has(m, "deep_sleep_time")
                     THEN << <<StageScore(m, "deep_sleep_time", 20), Q(1, 10)>> >>
                     ELSE <<>>)
               \o (IF Has(m, "rem_sleep_time")
                     THEN << <<StageScore(m, "rem_sleep_time", 23), Q(1, 10)>> >>
                     ELSE <<>>)
          ELSE <<>>)

\* faulty variant: the sum is not divided by the weights used
WeightedSumUndivided(sw, total_weight) ==
    Clamp(R(0), R(100), RSum([i \in 1..Len(sw) |-> RMul(sw[i][1], sw[i][2])]))

\* sum(s * w) / total_weight, limited to [0, 100]
WeightedAverage(sw, total_weight) ==
    Clamp(R(0), R(100),
          RDiv(RSum([i \in 1..Len(sw) |-> RMul(sw[i][1], sw[i][2])]), total_weight))

SleepQualityFrom(m, sw, total_weight) ==
    IF sw # <<>> /\ RLt(R(0), total_weight) THEN Some(WeightedAverage(sw, total_weight))
    ELSE IF Has(m, "sleep_quality") THEN Some(Val(m, "sleep_quality"))
    ELSE None

SleepQualityOf(m, sw) ==
    SleepQualityFrom(m, sw, RSum([i \in 1..Len(sw) |-> sw[i][2]]))

ComputeSleepQualityScore(m) ==
    IF m = EmptyDict THEN None ELSE SleepQualityOf(m, SleepScores(m))

-----------------------------------------------------------------------------
(* get_burnout_risk_score(metrics, all_records): the window and its weights *)

\* faulty variant: the window reaches one day further back
DaysBackEight == 7 + 1

DaysBack == 7

\* all_metrics = [metrics] + prior_metrics; position 1 is the current day
AllMetrics(m, records) == <<Some(m)>> \o GetPriorMetrics(m, records, DaysBack)

\* calculate_time_exponential_weights(n) for each window length, computed once
TimeWeightsOfLength ==
    [n \in 1..(DaysBack + 1) |-> CalculateTimeExponentialWeights(n, DefaultDecay)]

TimeWeights(am) == TimeWeightsOfLength[Len(am)]

CombineWeights(t, c) == [i \in 1..Len(t) |-> RMul(t[i], c[i])]

CombinedWeights(am) == CombineWeights(TimeWeights(am), CalculateMissingDataWeights(am))

Normalize(combined_weights, weight_sum) ==
    IF RLt(R(0), weight_sum)
      THEN [i \in 1..Len(combined_weights) |-> RDiv(combined_weights[i], weight_sum)]
      ELSE [i \in 1..Len(combined_weights) |-> IF i = 1 THEN R(1) ELSE R(0)]

NormalizeWeights(combined_weights) == Normalize(combined_weights, RSum(combined_weights))

NormalizedWeights(am) == NormalizeWeights(CombinedWeights(am))

\* positions of the window that have every field of fs
DaysWith(am, fs) == {i \in 1..Len(am) : \A f \in fs : HasField(am[i], f)}

RECURSIVE SumOver(_, _)
SumOver(f, S) ==
    IF S = {} THEN R(0)
    ELSE LET i == CHOOSE x \in S : TRUE IN RAdd(f[i], SumOver(f, S \ {i}))

\* faulty variant: a component without data counts as no risk
NeutralZero == R(0)

Neutral == R(50)

\* sum(r * w for r, w in values) when values is not empty, else the neutral value
Weighted(values, w) ==
    IF DOMAIN values # {}
      THEN SumOver([i \in DOMAIN values |-> RMul(values[i], w[i])], DOMAIN values)
      ELSE Neutral

-----------------------------------------------------------------------------
(* Component 1: recovery *)

\* faulty variant: the recovery score is not inverted
RecoveryNotInverted(m) == Val(m, "recovery_score")

RecoveryRisk(m) == RSub(R(100), Val(m, "recovery_score"))

RecoveryRiskValues(am) ==
    [i \in DaysWith(am, {"recovery_score"}) |-> RecoveryRisk(am[i][1])]

RecoveryRiskScore(am, w) == Weighted(RecoveryRiskValues(am), w)

-----------------------------------------------------------------------------
(* Components 2 and 5: HRV and mood, each with a short-term trend *)

HrvNormalized(m) ==
    Clamp(R(0), R(100),
          RSub(R(100), RMul(RDiv(RSub(Val(m, "hrv"), R(20)), R(80)), R(100))))

\* faulty variant: the 1-10 rating is scaled by 10 instead of 9
MoodRiskOverTen(m) ==
    RSub(R(100), RMul(RDiv(RSub(Val(m, "mood_rating"), R(1)), R(10)), R(100)))

MoodRisk(m) ==
    RSub(R(100), RMul(RDiv(RSub(Val(m, "mood_rating"), R(1)), R(9)), R(100)))

\* the length of the slice all_metrics[:3] the trends are computed from
RecentSpan == 3

\* the positions among the first three of the window that have field f
RecentDays(am, f) == {i \in DaysWith(am, {f}) : i <= RecentSpan}

RECURSIVE Ascending(_)
Ascending(S) ==
    IF S = {} THEN <<>>
    ELSE LET lo == CHOOSE x \in S : \A y \in S : x <= y
         IN  <<lo>> \o Ascending(S \ {lo})

ValuesAt(am, f, order) == [k \in 1..Len(order) |-> Val(am[order[k]][1], f)]

\* [m.get(f) for m in all_metrics[:3] if m and m.get(f) is not None]
Recent(am, f) == ValuesAt(am, f, Ascending(RecentDays(am, f)))

Mean(s) == RDiv(RSum(s), R(Len(s)))

\* faulty variant: the sign is not flipped, so a rising series counts as risk
TrendOfUnflipped(recent, limit, scale) ==
    RMul(Clamp(RNeg(limit), limit, RSub(recent[1], Mean(Tail(recent)))), scale)

\* faulty variant: the difference is scaled before it is limited
TrendOfScaledFirst(recent, limit, scale) ==
    Clamp(RNeg(limit), limit, RMul(RNeg(RSub(recent[1], Mean(Tail(recent)))), scale))

\* -1 * (recent[0] - sum(recent[1:]) / len(recent[1:])), limited, then scaled
TrendOf(recent, limit, scale) ==
    RMul(Clamp(RNeg(limit), limit, RNeg(RSub(recent[1], Mean(Tail(recent))))), scale)

TrendFrom(count, recent, limit, scale) ==
    IF count >= 3 /\ Len(recent) >= 2 THEN TrendOf(recent, limit, scale) ELSE R(0)

Trend(am, f, limit, scale) ==
    TrendFrom(Cardinality(DaysWith(am, {f})), Recent(am, f), limit, scale)

HrvTrend(am) == Trend(am, "hrv", R(20), Q(25, 10))

MoodTrend(am) == Trend(am, "mood_rating", R(4), Q(125, 10))

\* score * 0.8 + trend * 0.2 when the trend is positive
Blend(score, trend) ==
    IF RLt(R(0), trend)
      THEN RAdd(RMul(score, Q(8, 10)), RMul(trend, Q(2, 10)))
      ELSE score

HrvRiskValues(am) == [i \in DaysWith(am, {"hrv"}) |-> HrvNormalized(am[i][1])]

HrvRiskScore(am, w) == Blend(Weighted(HrvRiskValues(am), w), HrvTrend(am))

MoodRiskValues(am) == [i \in DaysWith(am, {"mood_rating"}) |-> MoodRisk(am[i][1])]

MoodRiskScore(am, w) == Blend(Weighted(MoodRiskValues(am), w), MoodTrend(am))

-----------------------------------------------------------------------------
(* Component 3: sleep *)

SleepScoresOfWindow(am) ==
    [i \in 1..Len(am) |->
        IF Truthy(am[i]) THEN ComputeSleepQualityScore(am[i][1]) ELSE None]

SleepRiskValuesFrom(scores) ==
    [i \in {k \in DOMAIN scores : scores[k] # None} |-> RSub(R(100), scores[i][1])]

SleepRiskValues(am) == SleepRiskValuesFrom(SleepScoresOfWindow(am))

SleepRiskScore(am, w) == Weighted(SleepRiskValues(am), w)

-----------------------------------------------------------------------------
(* Component 4: strain-to-recovery balance *)

StrainNormalized(m) == RMin(R(100), RMul(RDiv(Val(m, "strain"), R(21)), R(100)))

StrainRatio(m) ==
    IF RLt(R(0), Val(m, "recovery_score"))
      THEN RDiv(StrainNormalized(m), Val(m, "recovery_score"))
      ELSE R(2)

\* faulty variant: the last band has no ceiling of 100
RatioRiskUncapped(ratio) ==
    IF RLt(ratio, Q(7, 10)) THEN R(20)
    ELSE IF RLt(ratio, R(1)) THEN RAdd(R(30), RMul(RSub(ratio, Q(7, 10)), R(100)))
    ELSE RAdd(R(60), RMul(RSub(ratio, R(1)), R(80)))

\* faulty variant: the first boundary is inclusive (ratio <= 0.7)
RatioRiskInclusive(ratio) ==
    IF RLe(ratio, Q(7, 10)) THEN R(20)
    ELSE IF RLt(ratio, R(1)) THEN RAdd(R(30), RMul(RSub(ratio, Q(7, 10)), R(100)))
    ELSE IF RLt(ratio, Q(15, 10)) THEN RAdd(R(60), RMul(RSub(ratio, R(1)), R(80)))
    ELSE R(100)

RatioRisk(ratio) ==
    IF RLt(ratio, Q(7, 10)) THEN R(20)
    ELSE IF RLt(ratio, R(1)) THEN RAdd(R(30), RMul(RSub(ratio, Q(7, 10)), R(100)))
    ELSE IF RLt(ratio, Q(15, 10)) THEN RAdd(R(60), RMul(RSub(ratio, R(1)), R(80)))
    ELSE R(100)

SrRisk(m) == RatioRisk(StrainRatio(m))

StrainRecoveryValues(am) ==
    [i \in DaysWith(am, {"strain", "recovery_score"}) |-> SrRisk(am[i][1])]

StrainRecoveryRisk(am, w) == Weighted(StrainRecoveryValues(am), w)

-----------------------------------------------------------------------------
(* The weighted combination and the return value *)

\* faulty variant: the component weights do not sum to 1
ComponentWeightsHrv20 ==
    [recovery |-> Q(25, 100), hrv |-> Q(20, 100), sleep |-> Q(15, 100),
     strain_recovery |-> Q(15, 100), mood |-> Q(30, 100)]

ComponentWeights ==
    [recovery |-> Q(25, 100), hrv |-> Q(15, 100), sleep |-> Q(15, 100),
     strain_recovery |-> Q(15, 100), mood |-> Q(30, 100)]

Components(am, w) ==
    [recovery        |-> RecoveryRiskScore(am, w),
     hrv             |-> HrvRiskScore(am, w),
     sleep           |-> SleepRiskScore(am, w),
     strain_recovery |-> StrainRecoveryRisk(am, w),
     mood            |-> MoodRiskScore(am, w)]

BurnoutRisk(c) ==
    RSum(<<RMul(c.recovery, ComponentWeights.recovery),
           RMul(c.hrv, ComponentWeights.hrv),
           RMul(c.sleep, ComponentWeights.sleep),
           RMul(c.strain_recovery, ComponentWeights.strain_recovery),
           RMul(c.mood, ComponentWeights.mood)>>)

\* faulty variant: the guard tests truthiness (not metrics.get('recovery_score'))
MissingRecoveryFalsy(m) ==
    m = EmptyDict \/ ~Has(m, "recovery_score") \/ m["recovery_score"][1] = 0

\* faulty variant: the guard also requires a mood rating
MissingRecoveryOrMood(m) ==
    m = EmptyDict \/ ~Has(m, "recovery_score") \/ ~Has(m, "mood_rating")

\* the guard of the first statement: not metrics or recovery_score is None
MissingRecovery(m) == m = EmptyDict \/ ~Has(m, "recovery_score")

\* min(100, max(0, burnout_risk))
FinalScore(burnout_risk) == RMin(R(100), RMax(R(0), burnout_risk))

\* the prior days of the window that have a stored burnout_current
PrevBurnout(am) == {i \in 2..Len(am) : HasField(am[i], "burnout_current")}

\* burnout_risk - sum(prev_burnout) / len(prev_burnout)
TrendAgainst(am, prev, burnout_risk) ==
    RSub(burnout_risk,
         RDiv(SumOver([i \in prev |-> am[i][1]["burnout_current"][1]], prev),
              R(Cardinality(prev))))

\* the local burnout_trend: 0 unless the window has 4 entries or more, the
\* current day has a stored burnout_current and some prior day has one
BurnoutTrend(am, burnout_risk) ==
    IF Len(am) >= 4 /\ HasField(am[1], "burnout_current") /\ PrevBurnout(am) # {}
      THEN TrendAgainst(am, PrevBurnout(am), burnout_risk)
      ELSE R(0)

NoLocals ==
    [all_metrics |-> <<>>, time_weights |-> <<>>, normalized_weights |-> <<>>,
     risk |-> <<>>, hrv_trend |-> <<>>, mood_trend |-> <<>>,
     burnout_trend |-> <<>>, error |-> FALSE]

LocalsOf(am, w, risk) ==
    [all_metrics        |-> am,
     time_weights       |-> TimeWeights(am),
     normalized_weights |-> w,
     risk               |-> risk,
     hrv_trend          |-> HrvTrend(am),
     mood_trend         |-> MoodTrend(am),
     burnout_trend      |-> BurnoutTrend(am, BurnoutRisk(risk)),
     error              |-> FALSE]

\* the local variables of an execution that got past the guard
LocalsWith(am, w) == LocalsOf(am, w, Components(am, w))

Locals(am) == LocalsWith(am, NormalizedWeights(am))

\* faulty variant: the trend against the stored scores is added to the score
FinishWithTrend(l) ==
    [result |-> Some(FinalScore(RAdd(BurnoutRisk(l.risk), l.burnout_trend))),
     locals |-> l]

\* return min(100, max(0, burnout_risk)); burnout_trend is dropped
Finish(l) == [result |-> Some(FinalScore(BurnoutRisk(l.risk))), locals |-> l]

(* The divisors of the divisions an execution of the try block performs,  *)
(* the literal ones (4, 80, 21, 9) apart.  A division by zero raises        *)
(* ZeroDivisionError, which the except clause of get_burnout_risk_score     *)
(* catches.                                                                 *)

\* sum_weights of calculate_time_exponential_weights(n), for each length
TimeWeightSums ==
    [n \in 1..(DaysBack + 1) |-> RSum(Reverse([i \in 1..n |-> RPow(DefaultDecay, i - 1)]))]

\* w / weight_sum is evaluated only if weight_sum > 0
WeightSumDivisors(weight_sum) == IF RLt(R(0), weight_sum) THEN {weight_sum} ELSE {}

\* len(recent[1:]) of the trend of field f, when the trend is computed
TrendDivisors(am, f) ==
    IF Cardinality(DaysWith(am, {f})) >= 3 /\ Cardinality(RecentDays(am, f)) >= 2
      THEN {R(Cardinality(RecentDays(am, f)) - 1)}
      ELSE {}

\* compute_sleep_quality_score: total_sleep_time when a stage percentage is
\* computed, and total_weight when the weighted average is
SleepDivisorsOf(m, total_weight) ==
         (IF Has(m, "total_sleep_time") /\ m["total_sleep_time"][1] > 0
               /\ (Has(m, "deep_sleep_time") \/ Has(m, "rem_sleep_time"))
            THEN {Val(m, "total_sleep_time")} ELSE {})
    \cup (IF RLt(R(0), total_weight) THEN {total_weight} ELSE {})

SleepDivisors(m) ==
    SleepDivisorsOf(m, RSum([i \in 1..Len(SleepScores(m)) |-> SleepScores(m)[i][2]]))

\* faulty variant: the ratio is computed whatever the recovery score
RatioDivisorsUnguarded(m) == {Val(m, "recovery_score")}

\* strain_normalized / recovery_score is evaluated only if recovery_score > 0
RatioDivisors(m) ==
    IF RLt(R(0), Val(m, "recovery_score")) THEN {Val(m, "recovery_score")} ELSE {}

Divisors(am) ==
         {TimeWeightSums[Len(am)]}
    \cup WeightSumDivisors(RSum(CombinedWeights(am)))
    \cup TrendDivisors(am, "hrv")
    \cup TrendDivisors(am, "mood_rating")
    \cup UNION {SleepDivisors(am[i][1]) : i \in {k \in 1..Len(am) : Truthy(am[k])}}
    \cup UNION {RatioDivisors(am[i][1]) : i \in DaysWith(am, {"strain", "recovery_score"})}

ZeroDivision(am) == R(0) \in Divisors(am)

\* (10 - mood) / 10 if mood else 0.5
MoodFactor(m) ==
    IF Has(m, "mood_rating") /\ m["mood_rating"][1] # 0
      THEN RDiv(RSub(R(10), Val(m, "mood_rating")), R(10))
      ELSE Q(1, 2)

\* the except clause: (recovery_factor * 0.7 + mood_factor * 0.3) * 100
SimpleRisk(m) ==
    RMul(RAdd(RMul(RDiv(RSub(R(100), Val(m, "recovery_score")), R(100)), Q(7, 10)),
              RMul(MoodFactor(m), Q(3, 10))),
         R(100))

Except(m) ==
    [result |-> Some(FinalScore(SimpleRisk(m))),
     locals |-> [NoLocals EXCEPT !.error = TRUE]]

\* the try block on the window am
Try(m, am) == IF ZeroDivision(am) THEN Except(m) ELSE Finish(Locals(am))

\* one execution: the return value and the local variables it ended with
Run(m, records) ==
    IF MissingRecovery(m) THEN [result |-> None, locals |-> NoLocals]
    ELSE Try(m, AllMetrics(m, records))

GetBurnoutRiskScore(m, records) == Run(m, records).result

-----
(* The daily_metrics table and save_daily_metrics (src/supabase_client.py) *)

MaxDate == 2

Dates == 1..MaxDate

\* the columns save_daily_metrics copies from metrics_data
SavedKeys ==
    {"recovery_score", "strain", "hrv", "sleep_quality", "sleep_consistency",
     "sleep_efficiency", "total_sleep_time", "deep_sleep_time", "rem_sleep_time"}

\* the column it copies from mood_data
MoodKeys == {"mood_rating"}

\* update of the existing row, or insert of a new one, for metrics_data's
\* date; a column is written only when its key is copied and not None
SaveDailyMetrics(table, metrics_data, mood_data) ==
    LET d   == metrics_data["date"][1]
        old == IF table[d] = None THEN EmptyDict ELSE table[d][1]
        new == [f \in Fields |->
                   IF f = "date" THEN Some(d)
                   ELSE IF f \in SavedKeys /\ Has(metrics_data, f) THEN metrics_data[f]
                   ELSE IF f \in MoodKeys /\ Has(mood_data, f) THEN mood_data[f]
                   ELSE old[f]]
    IN  [table EXCEPT ![d] = Some(new)]

\* get_daily_metrics(user_id): every row, ordered by date descending
RECURSIVE RowsFrom(_, _)
RowsFrom(table, d) ==
    IF d = 0 THEN <<>>
    ELSE (IF table[d] = None THEN <<>> ELSE <<table[d][1]>>) \o RowsFrom(table, d - 1)

GetDailyMetrics(table) == RowsFrom(table, MaxDate)

\* no batch recomputation is running
NoBatch == <<>>

\* no API request in flight
NoRequests == <<>>

\* save_daily_metrics of the package (src/app/database/supabase.py): the
\* row of metrics_data's date is updated with, or inserted as, the whole
\* dictionary
PackageSaveDailyMetrics(table, metrics_data) ==
    [table EXCEPT ![metrics_data["date"][1]] = Some(metrics_data)]

-----------------------------------------------------------------------------
(* Specification Spec: wearable and mood data arrive in the table, and the *)
(* dashboard scores a selected date against the whole table.               *)

StoreVals(f) ==
    CASE f = "recovery_score" -> {40}
      [] f = "mood_rating"    -> {4}
      [] f = "hrv"            -> {60}
      [] f = "strain"         -> {126}
      [] f = "sleep_quality"  -> {70}
      [] OTHER                -> {}

NoCall ==
    /\ metrics' = EmptyDict
    /\ all_records' = <<>>
    /\ result' = None
    /\ locals' = NoLocals
    /\ pc' = "idle"

\* faulty variant: burnout_trend = 0 is set on the record, not in a local
ArgumentsWithTrendSet(m, records) ==
    [metrics |-> [m EXCEPT !["burnout_trend"] = Some(R(0))], all_records |-> records]

\* the objects passed as metrics and all_records as the call leaves them: the
\* function reads them with .get and indexing and assigns to no key of either
Arguments(m, records) == [metrics |-> m, all_records |-> records]

Returned(m, records, run) ==
    /\ metrics' = Arguments(m, records).metrics
    /\ all_records' = Arguments(m, records).all_records
    /\ result' = run.result
    /\ locals' = run.locals
    /\ pc' = "done"

Call(m, records) == Returned(m, records, Run(m, records))

Init ==
    /\ store = [d \in Dates |-> None]
    /\ metrics = EmptyDict
    /\ all_records = <<>>
    /\ result = None
    /\ locals = NoLocals
    /\ pc = "idle"
    /\ days_back = 0
    /\ decay_factor = DefaultDecay
    /\ weights_out = <<>>
    /\ batch = NoBatch
    /\ health_metrics = <<>>
    /\ mood_ratings = <<>>
    /\ risk_analysis = None
    /\ burnout_scores = <<>>
    /\ now = 1
    /\ requests = NoRequests

\* a wearable fetch or a mood entry stores one value for date d
Ingest(d, f, v) ==
    /\ pc = "idle"
    /\ store' = IF f \in MoodKeys
                  THEN SaveDailyMetrics(store, [EmptyDict EXCEPT !["date"] = Some(d)],
                                        [EmptyDict EXCEPT ![f] = Some(v)])
                  ELSE SaveDailyMetrics(store,
                                        [EmptyDict EXCEPT !["date"] = Some(d), ![f] = Some(v)],
                                        EmptyDict)
    /\ UNCHANGED <<metrics, all_records, result, locals, pc>>
    /\ UNCHANGED <<days_back, decay_factor, weights_out>>
    /\ UNCHANGED <<batch, health_metrics, mood_ratings, risk_analysis>>
    /\ UNCHANGED <<burnout_scores, now, requests>>

\* dashboard: the selected date's row is scored when it has a recovery score
\* and no stored burnout_current, and the row is saved back
Dashboard(d) ==
    /\ pc = "idle"
    /\ store[d] # None
    /\ LET selected_record == store[d][1]
       IN  /\ ~Has(selected_record, "burnout_current")
           /\ Has(selected_record, "recovery_score")
           /\ Call(selected_record, GetDailyMetrics(store))
           /\ store' = SaveDailyMetrics(store,
                           [selected_record EXCEPT !["burnout_current"] = result'],
                           EmptyDict)
    /\ UNCHANGED <<days_back, decay_factor, weights_out>>
    /\ UNCHANGED <<batch, health_metrics, mood_ratings, risk_analysis>>
    /\ UNCHANGED <<burnout_scores, now, requests>>

\* the request ends: the call's arguments, locals and return value are gone
Respond ==
    /\ pc = "done"
    /\ NoCall
    /\ UNCHANGED <<store, days_back, decay_factor, weights_out>>
    /\ UNCHANGED <<batch, health_metrics, mood_ratings, risk_analysis>>
    /\ UNCHANGED <<burnout_scores, now, requests>>

Next ==
    \/ \E d \in Dates : \E f \in SavedKeys \cup MoodKeys : \E v \in StoreVals(f) :
          Ingest(d, f, v)
    \/ \E d \in Dates : Dashboard(d)
    \/ Respond

Spec == Init /\ [][Next]_vars

-----------------------------------------------------------------------------
(* Specification SpecCall: one direct call get_burnout_risk_score(metrics, *)
(* all_records) on arguments drawn from bounded sets.                      *)

CallVals(f) ==
    CASE f = "recovery_score" -> {0, 20, 50, 70, 100}
      [] f = "mood_rating"    -> {1, 5}
      [] f = "hrv"            -> {20, 60}
      [] f = "strain"         -> {0, 63, 100, 105, 147, 210}
      [] f = "sleep_quality"  -> {70}
      [] f = "date"           -> {MaxDate}
      [] OTHER                -> {}

Optional(S) == {None} \cup {Some(v) : v \in S}

RecordsOver(V) ==
    [date : V["date"], recovery_score : V["recovery_score"],
     mood_rating : V["mood_rating"], hrv : V["hrv"], strain : V["strain"],
     sleep_quality : V["sleep_quality"], sleep_efficiency : V["sleep_efficiency"],
     sleep_consistency : V["sleep_consistency"],
     total_sleep_time : V["total_sleep_time"], deep_sleep_time : V["deep_sleep_time"],
     rem_sleep_time : V["rem_sleep_time"], burnout_current : V["burnout_current"],
     burnout_trend : V["burnout_trend"]]

CallFieldSet(f) ==
    IF f = "date" THEN {Some(v) : v \in CallVals(f)} ELSE Optional(CallVals(f))

CallMetrics == {EmptyDict} \cup RecordsOver([f \in Fields |-> CallFieldSet(f)])

PriorVals(f) ==
    CASE f = "recovery_score" -> {40}
      [] f = "mood_rating"    -> {4}
      [] f = "hrv"            -> {60}
      [] f = "strain"         -> {126}
      [] f = "sleep_quality"  -> {70}
      [] f = "date"           -> {MaxDate - 1}
      [] OTHER                -> {}

PriorFieldSet(f) ==
    IF f = "date" THEN {Some(v) : v \in PriorVals(f)} ELSE Optional(PriorVals(f))

\* a history is empty or holds one record, dated the day before
PriorRecords == RecordsOver([f \in Fields |-> PriorFieldSet(f)])

CallHistories == {<<>>} \cup {<<h>> : h \in PriorRecords}

InitCall ==
    /\ store = [d \in Dates |-> None]
    /\ metrics \in CallMetrics
    /\ all_records \in CallHistories
    /\ result = None
    /\ locals = NoLocals
    /\ pc = "idle"
    /\ days_back = 0
    /\ decay_factor = DefaultDecay
    /\ weights_out = <<>>
    /\ batch = NoBatch
    /\ health_metrics = <<>>
    /\ mood_ratings = <<>>
    /\ risk_analysis = None
    /\ burnout_scores = <<>>
    /\ now = 1
    /\ requests = NoRequests

CallScore ==
    /\ pc = "idle"
    /\ Call(metrics, all_records)
    /\ UNCHANGED <<store, days_back, decay_factor, weights_out>>
    /\ UNCHANGED <<batch, health_metrics, mood_ratings, risk_analysis>>
    /\ UNCHANGED <<burnout_scores, now, requests>>

NextCall == CallScore

SpecCall == InitCall /\ [][NextCall]_vars

-----------------------------------------------------------------------------
(* Specification SpecW: one call calculate_time_exponential_weights(       *)
(* days_back, decay_factor).                                               *)

MaxDaysBack == 8

DecayFactors == {Q(k, 10) : k \in 1..9}

InitW ==
    /\ store = [d \in Dates |-> None]
    /\ metrics = EmptyDict
    /\ all_records = <<>>
    /\ result = None
    /\ locals = NoLocals
    /\ pc = "idle"
    /\ days_back \in 1..MaxDaysBack
    /\ decay_factor \in DecayFactors
    /\ weights_out = <<>>
    /\ batch = NoBatch
    /\ health_metrics = <<>>
    /\ mood_ratings = <<>>
    /\ risk_analysis = None
    /\ burnout_scores = <<>>
    /\ now = 1
    /\ requests = NoRequests

CallWeights ==
    /\ pc = "idle"
    /\ weights_out' = CalculateTimeExponentialWeights(days_back, decay_factor)
    /\ pc' = "done"
    /\ UNCHANGED <<store, metrics, all_records, result, locals, days_back, decay_factor>>
    /\ UNCHANGED <<batch, health_metrics, mood_ratings, risk_analysis>>
    /\ UNCHANGED <<burnout_scores, now, requests>>

NextW == CallWeights

SpecW == InitW /\ [][NextW]_vars

-----------------------------------------------------------------------------
(* Specification SpecPrior: one call get_prior_metrics(metrics,            *)
(* all_records, days_back) on a history of up to MaxHistory records, some  *)
(* without a date, some sharing a date.                                    *)

MaxHistory == 2

PriorCallVals(f) ==
    CASE f = "recovery_score" -> {40, 50}
      [] f = "date"           -> 0..MaxDate
      [] OTHER                -> {}

PriorCallFieldSet(f) ==
    IF f = "recovery_score" THEN {Some(v) : v \in PriorCallVals(f)}
    ELSE Optional(PriorCallVals(f))

PriorCallRecords == RecordsOver([f \in Fields |-> PriorCallFieldSet(f)])

PriorCallHistories ==
    UNION {[1..n -> PriorCallRecords] : n \in 0..MaxHistory}

\* the current day: empty, without a date, or dated MaxDate or the day after
PriorCallMetrics ==
    {EmptyDict, [EmptyDict EXCEPT !["recovery_score"] = Some(40)]}
        \cup {[EmptyDict EXCEPT !["date"] = Some(d)] : d \in {MaxDate, MaxDate + 1}}

InitPrior ==
    /\ store = [d \in Dates |-> None]
    /\ metrics \in PriorCallMetrics
    /\ all_records \in PriorCallHistories
    /\ result = None
    /\ locals = NoLocals
    /\ pc = "idle"
    /\ days_back \in 1..MaxDaysBack
    /\ decay_factor = DefaultDecay
    /\ weights_out = <<>>
    /\ batch = NoBatch
    /\ health_metrics = <<>>
    /\ mood_ratings = <<>>
    /\ risk_analysis = None
    /\ burnout_scores = <<>>
    /\ now = 1
    /\ requests = NoRequests

CallPrior ==
    /\ pc = "idle"
    /\ result' = Some(GetPriorMetrics(metrics, all_records, days_back))
    /\ pc' = "done"
    /\ UNCHANGED <<store, metrics, all_records, locals, days_back, decay_factor,
                   weights_out>>
    /\ UNCHANGED <<batch, health_metrics, mood_ratings, risk_analysis>>
    /\ UNCHANGED <<burnout_scores, now, requests>>

NextPrior == CallPrior

SpecPrior == InitPrior /\ [][NextPrior]_vars

-----------------------------------------------------------------------------
(* Specification SpecBatch: the scores of the dates of the table are       *)
(* recomputed as input_mood of the package does it for a date (src/app/    *)
(* core/routes.py): read the row and the table, compute, set               *)
(* burnout_current, save.  One job per date; their steps interleave.       *)

BatchVals(f) ==
    CASE f = "recovery_score"  -> {40, 80}
      [] f = "burnout_current" -> {R(50)}
      [] OTHER                 -> {}

\* the columns of a row, its date apart
BatchRowData == RecordsOver([f \in Fields |-> Optional(BatchVals(f))])

BatchTables ==
    {[d \in Dates |-> IF c[d] = None THEN None
                      ELSE Some([c[d][1] EXCEPT !["date"] = Some(d)])] :
        c \in [Dates -> Optional(BatchRowData)]}

NoJob == [pc |-> "todo", updated_record |-> None, new_risk |-> None]

InitBatch ==
    /\ store \in BatchTables
    /\ batch = [table0 |-> store, job |-> [d \in Dates |-> NoJob]]
    /\ metrics = EmptyDict
    /\ all_records = <<>>
    /\ result = None
    /\ locals = NoLocals
    /\ pc = "idle"
    /\ days_back = 0
    /\ decay_factor = DefaultDecay
    /\ weights_out = <<>>
    /\ health_metrics = <<>>
    /\ mood_ratings = <<>>
    /\ risk_analysis = None
    /\ burnout_scores = <<>>
    /\ now = 1
    /\ requests = NoRequests

\* updated_record = get_daily_metrics(user_id, date_str); all_records =
\* get_daily_metrics(user_id); new_risk = get_burnout_risk_score(...)
Computed(d, new_risk) ==
    batch' = [batch EXCEPT !.job[d] =
                 [pc             |-> IF new_risk = None THEN "done" ELSE "computed",
                  updated_record |-> store[d],
                  new_risk       |-> new_risk]]

Compute(d) ==
    /\ batch.job[d].pc = "todo"
    /\ store[d] # None
    /\ Computed(d, GetBurnoutRiskScore(store[d][1], GetDailyMetrics(store)))
    /\ UNCHANGED <<store, metrics, all_records, result, locals, pc>>
    /\ UNCHANGED <<days_back, decay_factor, weights_out>>
    /\ UNCHANGED <<health_metrics, mood_ratings, risk_analysis>>
    /\ UNCHANGED <<burnout_scores, now, requests>>

\* updated_record[0]['burnout_current'] = new_risk; save_daily_metrics(...)
Persist(d) ==
    /\ batch.job[d].pc = "computed"
    /\ store' = PackageSaveDailyMetrics(store,
                    [batch.job[d].updated_record[1]
                        EXCEPT !["burnout_current"] = batch.job[d].new_risk])
    /\ batch' = [batch EXCEPT !.job[d].pc = "done"]
    /\ UNCHANGED <<metrics, all_records, result, locals, pc>>
    /\ UNCHANGED <<days_back, decay_factor, weights_out>>
    /\ UNCHANGED <<health_metrics, mood_ratings, risk_analysis>>
    /\ UNCHANGED <<burnout_scores, now, requests>>

NextBatch ==
    \/ \E d \in Dates : Compute(d)
    \/ \E d \in Dates : Persist(d)

SpecBatch == InitBatch /\ [][NextBatch]_vars

-----------------------------------------------------------------------------
(* BurnoutCalculator.calculate_overall_risk (src/apps/api/app/services/    *)
(* burnout_calculator.py): the data points its five components report and  *)
(* the confidence derived from them.  The risk scores of the returned       *)
(* dictionary take no part in either and are not modelled.                  *)

HealthFields ==
    {"recovery_score", "hrv", "sleep_quality_score", "sleep_duration_minutes",
     "day_strain"}

\* the records of health_metrics whose fields fs are all present
RecordsWith(hm, fs) == {i \in 1..Len(hm) : \A f \in fs : hm[i][f] # None}

\* analysis.get("data_points", 0) of each component
RecoveryDataPoints(hm) == Cardinality(RecordsWith(hm, {"recovery_score"}))

MoodDataPoints(mr) == Len(mr)

HrvDataPoints(hm) == Cardinality(RecordsWith(hm, {"hrv"}))

Max(a, b) == IF a < b THEN b ELSE a

SleepDataPoints(hm) ==
    Max(Cardinality(RecordsWith(hm, {"sleep_quality_score"})),
        Cardinality(RecordsWith(hm, {"sleep_duration_minutes"})))

StrainDataPoints(hm) == Cardinality(RecordsWith(hm, {"day_strain", "recovery_score"}))

DataPoints(hm, mr) ==
    RecoveryDataPoints(hm) + MoodDataPoints(mr) + HrvDataPoints(hm)
        + SleepDataPoints(hm) + StrainDataPoints(hm)

\* faulty variant: the confidence is not capped at 100
ConfidenceUncapped(data_points) == RMul(Q(data_points, 30), R(100))

\* min(100, (data_points / 30) * 100)
Confidence(data_points) == RMin(R(100), RMul(Q(data_points, 30), R(100)))

\* floor for exact fractions
Floor(x) == x[1] \div x[2]

\* round(x, 1) for x >= 0
Round1(x) == Q(Floor(RAdd(RMul(x, R(10)), Q(1, 2))), 10)

CalculateOverallRisk(hm, mr) ==
    [data_points_used |-> DataPoints(hm, mr),
     confidence       |-> Confidence(DataPoints(hm, mr)),
     confidence_score |-> Round1(Confidence(DataPoints(hm, mr)))]

(* Specification SpecRisk: one call calculate_overall_risk(health_metrics, *)
(* mood_ratings) on up to MaxRecords daily records, complete ones followed *)
(* by partial ones of one kind, and up to MaxRecords mood ratings.         *)

MaxRecords == 8

HealthVals(f) ==
    CASE f = "recovery_score"         -> 50
      [] f = "hrv"                    -> 60
      [] f = "sleep_quality_score"    -> 70
      [] f = "sleep_duration_minutes" -> 420
      [] f = "day_strain"             -> 100

FullRecord == [f \in HealthFields |-> Some(HealthVals(f))]

\* a record that has the fields fs only
PartialRecord(fs) == [f \in HealthFields |-> IF f \in fs THEN Some(HealthVals(f)) ELSE None]

PartialKinds ==
    {{}, {"recovery_score"}, {"day_strain"}, {"sleep_quality_score"},
     {"sleep_duration_minutes", "hrv"}}

HealthLists ==
    {[i \in 1..(a + b) |-> IF i <= a THEN FullRecord ELSE PartialRecord(fs)] :
        a \in 0..MaxRecords, b \in 0..2, fs \in PartialKinds}

MoodLists == {[i \in 1..c |-> [rating |-> 5]] : c \in 0..MaxRecords}

InitRisk ==
    /\ store = [d \in Dates |-> None]
    /\ metrics = EmptyDict
    /\ all_records = <<>>
    /\ result = None
    /\ locals = NoLocals
    /\ pc = "idle"
    /\ days_back = 0
    /\ decay_factor = DefaultDecay
    /\ weights_out = <<>>
    /\ batch = NoBatch
    /\ health_metrics \in HealthLists
    /\ mood_ratings \in MoodLists
    /\ risk_analysis = None
    /\ burnout_scores = <<>>
    /\ now = 1
    /\ requests = NoRequests

CallOverallRisk ==
    /\ pc = "idle"
    /\ risk_analysis' = Some(CalculateOverallRisk(health_metrics, mood_ratings))
    /\ pc' = "done"
    /\ UNCHANGED <<store, metrics, all_records, result, locals>>
    /\ UNCHANGED <<days_back, decay_factor, weights_out>>
    /\ UNCHANGED <<batch, health_metrics, mood_ratings>>
    /\ UNCHANGED <<burnout_scores, now, requests>>

NextRisk == CallOverallRisk

SpecRisk == InitRisk /\ [][NextRisk]_vars

-----------------------------------------------------------------------------
(* Specification SpecWindow: one call get_burnout_risk_score(metrics,      *)
(* all_records) as the routes make it: all_records is the whole table, the *)
(* current day's row included, newest first.  The table holds the current  *)
(* day and any of the RecentSpan days before it, so that the window has    *)
(* days inside and one day beyond the slice all_metrics[:3].               *)

NoFields == [f \in {} |-> 0]

\* the record dated date whose present fields are those of parts
Day(date, parts) ==
    [f \in Fields |-> IF f = "date" THEN Some(date)
                      ELSE IF f \in DOMAIN parts THEN Some(parts[f])
                      ELSE None]

WindowRecovery == {[recovery_score |-> v] : v \in {0, 20, 80}}

WindowSignals ==
    {NoFields, [hrv |-> 20, mood_rating |-> 1], [hrv |-> 60, mood_rating |-> 5],
     [hrv |-> 80, mood_rating |-> 8], [hrv |-> 100, mood_rating |-> 10]}

WindowBodies ==
    {NoFields,
     [strain |-> 210, total_sleep_time |-> 0, deep_sleep_time |-> 0],
     [strain |-> 63, sleep_quality |-> 70, total_sleep_time |-> 480,
      deep_sleep_time |-> 96, rem_sleep_time |-> 110]}

\* the current day always has a recovery score
WindowCurrent ==
    {r @@ g @@ b : r \in WindowRecovery, g \in WindowSignals, b \in WindowBodies}

\* a prior day: no row, a row without data, or a row with some of the fields
WindowPrior ==
    {None, Some(NoFields),
     Some([recovery_score |-> 20, hrv |-> 40, mood_rating |-> 3]),
     Some([recovery_score |-> 80, hrv |-> 80, mood_rating |-> 8]),
     Some([recovery_score |-> 80]),
     Some([hrv |-> 60, mood_rating |-> 5]),
     Some([recovery_score |-> 0, strain |-> 210, total_sleep_time |-> 0,
           deep_sleep_time |-> 0]),
     Some([recovery_score |-> 80, strain |-> 63, sleep_quality |-> 70,
           total_sleep_time |-> 480, deep_sleep_time |-> 96, rem_sleep_time |-> 110])}

WindowDate == RecentSpan + 1

\* the rows of the days before, newest first; p[i] is the day i days before
RECURSIVE PriorRows(_, _)
PriorRows(p, i) ==
    IF i > RecentSpan THEN <<>>
    ELSE (IF p[i] = None THEN <<>> ELSE <<Day(WindowDate - i, p[i][1])>>)
             \o PriorRows(p, i + 1)

InitWindow ==
    /\ store = [d \in Dates |-> None]
    /\ \E c \in WindowCurrent : \E p \in [1..RecentSpan -> WindowPrior] :
          /\ metrics = Day(WindowDate, c)
          /\ all_records = <<Day(WindowDate, c)>> \o PriorRows(p, 1)
    /\ result = None
    /\ locals = NoLocals
    /\ pc = "idle"
    /\ days_back = 0
    /\ decay_factor = DefaultDecay
    /\ weights_out = <<>>
    /\ batch = NoBatch
    /\ health_metrics = <<>>
    /\ mood_ratings = <<>>
    /\ risk_analysis = None
    /\ burnout_scores = <<>>
    /\ now = 1
    /\ requests = NoRequests

CallOnWindow ==
    /\ pc = "idle"
    /\ Call(metrics, all_records)
    /\ UNCHANGED <<store, days_back, decay_factor, weights_out>>
    /\ UNCHANGED <<batch, health_metrics, mood_ratings, risk_analysis>>
    /\ UNCHANGED <<burnout_scores, now, requests>>

NextWindow == CallOnWindow

SpecWindow == InitWindow /\ [][NextWindow]_vars

-----------------------------------------------------------------------------
(* Specification SpecSleep: one call compute_sleep_quality_score(metrics)   *)
(* on a day record whose sleep fields are drawn from bounded sets, the      *)
(* empty record included.                                                   *)

SleepVals(f) ==
    CASE f = "sleep_quality"     -> {0, 70, 100}
      [] f = "sleep_efficiency"  -> {90}
      [] f = "sleep_consistency" -> {50}
      [] f = "total_sleep_time"  -> {0, 480}
      [] f = "deep_sleep_time"   -> {0, 96, 480}
      [] f = "rem_sleep_time"    -> {110, 240}
      [] OTHER                   -> {}

SleepRecords == RecordsOver([f \in Fields |-> Optional(SleepVals(f))])

InitSleep ==
    /\ store = [d \in Dates |-> None]
    /\ metrics \in SleepRecords
    /\ all_records = <<>>
    /\ result = None
    /\ locals = NoLocals
    /\ pc = "idle"
    /\ days_back = 0
    /\ decay_factor = DefaultDecay
    /\ weights_out = <<>>
    /\ batch = NoBatch
    /\ health_metrics = <<>>
    /\ mood_ratings = <<>>
    /\ risk_analysis = None
    /\ burnout_scores = <<>>
    /\ now = 1
    /\ requests = NoRequests

CallSleepScore ==
    /\ pc = "idle"
    /\ result' = ComputeSleepQualityScore(metrics)
    /\ pc' = "done"
    /\ UNCHANGED <<store, metrics, all_records, locals, days_back, decay_factor,
                   weights_out>>
    /\ UNCHANGED <<batch, health_metrics, mood_ratings, risk_analysis>>
    /\ UNCHANGED <<burnout_scores, now, requests>>

NextSleep == CallSleepScore

SpecSleep == InitSleep /\ [][NextSleep]_vars

-----------------------------------------------------------------------------
(* Specification SpecLocal: one call get_burnout_risk_score(metrics,        *)
(* all_records) on a history that has rows at both ends of the window of    *)
(* the seven days before the current day and rows outside it: the current   *)
(* day's own row, the day after, the eighth day before, a row without date. *)
(* Rows come with and without stored burnout_current and burnout_trend.     *)

\* how many days before the current day a row of the history is dated
LocalOffsets == {-1, 0, 1, 7, 8}

LocalBodies ==
    {[recovery_score |-> 20, hrv |-> 40, mood_rating |-> 3, strain |-> 126,
      sleep_quality |-> 40],
     [recovery_score |-> 20, hrv |-> 40, mood_rating |-> 3, strain |-> 126,
      sleep_quality |-> 40, burnout_current |-> R(90), burnout_trend |-> R(-5)],
     [recovery_score |-> 80]}

LocalCurrent ==
    {[recovery_score |-> 50],
     [recovery_score |-> 50, hrv |-> 80, mood_rating |-> 8, strain |-> 63],
     [recovery_score |-> 50, hrv |-> 80, mood_rating |-> 8, strain |-> 63,
      burnout_current |-> R(60), burnout_trend |-> R(10)],
     [hrv |-> 80, mood_rating |-> 8]}

Undated == [EmptyDict EXCEPT !["recovery_score"] = Some(0)]

\* the rows p gives, newest first, after the row without a date if there is one
LocalHistory(p, undated) ==
    LET order == Ascending({o \in LocalOffsets : p[o] # None})
    IN  (IF undated THEN <<Undated>> ELSE <<>>)
            \o [k \in 1..Len(order) |-> Day(WindowDate - order[k], p[order[k]][1])]

InitLocal ==
    /\ store = [d \in Dates |-> None]
    /\ \E c \in LocalCurrent : metrics = Day(WindowDate, c)
    /\ \E p \in [LocalOffsets -> Optional(LocalBodies)] : \E undated \in BOOLEAN :
          all_records = LocalHistory(p, undated)
    /\ result = None
    /\ locals = NoLocals
    /\ pc = "idle"
    /\ days_back = 0
    /\ decay_factor = DefaultDecay
    /\ weights_out = <<>>
    /\ batch = NoBatch
    /\ health_metrics = <<>>
    /\ mood_ratings = <<>>
    /\ risk_analysis = None
    /\ burnout_scores = <<>>
    /\ now = 1
    /\ requests = NoRequests

CallOnHistory ==
    /\ pc = "idle"
    /\ Call(metrics, all_records)
    /\ UNCHANGED <<store, days_back, decay_factor, weights_out>>
    /\ UNCHANGED <<batch, health_metrics, mood_ratings, risk_analysis>>
    /\ UNCHANGED <<burnout_scores, now, requests>>

NextLocal == CallOnHistory

SpecLocal == InitLocal /\ [][NextLocal]_vars

-----------------------------------------------------------------------------
(* Specification SpecScores: the burnout_scores table of the API (src/apps/ *)
(* api/app) under its writers: POST /burnout/calculate, the dashboard's     *)
(* auto-calculation, and the recalculation after a mood change or a         *)
(* wearable sync.  The last two look a row up, then await the commit;       *)
(* requests interleave at that await.  The table has no unique constraint   *)
(* on (user_id, date).  One user; the data tables do not change.            *)

MaxRequests == 2

MaxRows == 3

MaxNow == 3

Requests == 1..MaxRequests

Idle == [pc |-> "idle", kind |-> "none", date |-> 0, existing |-> 0]

\* if not health_metrics and not mood_ratings: no calculation
HasData == health_metrics # <<>> \/ mood_ratings # <<>>

\* BurnoutScore(user_id, date, ...) from risk_analysis, calculated_at = now()
BurnoutScore(d, analysis) ==
    [date |-> d, calculated_at |-> now,
     confidence_score |-> analysis.confidence_score,
     data_points_used |-> analysis.data_points_used]

\* select(BurnoutScore).where(user_id == user_id, date == d)
ScoresOf(d) == {i \in 1..Len(burnout_scores) : burnout_scores[i].date = d}

\* select(BurnoutScore).where(date <= d).order_by(date.desc()).limit(1)
LatestScore(d) ==
    LET upto == {i \in 1..Len(burnout_scores) : burnout_scores[i].date <= d}
    IN  IF upto = {} THEN 0
        ELSE CHOOSE i \in upto : \A j \in upto :
                 \/ burnout_scores[j].date < burnout_scores[i].date
                 \/ (burnout_scores[j].date = burnout_scores[i].date /\ i <= j)

\* calculated_at < now - 24 hours
Stale(i) == burnout_scores[i].calculated_at < now - 1

\* should_calculate: no row was found (0), or the row found is stale
ShouldCalculate(i) == IF i = 0 THEN TRUE ELSE Stale(i)

InitScores ==
    /\ store = [d \in Dates |-> None]
    /\ metrics = EmptyDict
    /\ all_records = <<>>
    /\ result = None
    /\ locals = NoLocals
    /\ pc = "idle"
    /\ days_back = 0
    /\ decay_factor = DefaultDecay
    /\ weights_out = <<>>
    /\ batch = NoBatch
    /\ health_metrics \in {<<>>, <<FullRecord>>}
    /\ mood_ratings \in {<<>>, <<[rating |-> 5]>>}
    /\ risk_analysis = None
    /\ burnout_scores = <<>>
    /\ now = 1
    /\ requests = [r \in Requests |-> Idle]

\* POST /burnout/calculate: a new row for today, whatever the table holds
CalculateBurnoutRisk(r) ==
    /\ requests[r].pc = "idle"
    /\ HasData
    /\ Len(burnout_scores) < MaxRows
    /\ risk_analysis' = Some(CalculateOverallRisk(health_metrics, mood_ratings))
    /\ burnout_scores' = Append(burnout_scores, BurnoutScore(now, risk_analysis'[1]))
    /\ UNCHANGED <<now, requests>>
    /\ UNCHANGED <<store, metrics, all_records, result, locals, pc, batch>>
    /\ UNCHANGED <<days_back, decay_factor, weights_out, health_metrics, mood_ratings>>

\* recalculate_burnout and the sync recalculation up to the commit: the
\* calculation and the lookup of today's row; scalar_one_or_none raises on
\* two rows and the handler's except clause ends the recalculation
RecalculateLookup(r) ==
    /\ requests[r].pc = "idle"
    /\ HasData
    /\ Cardinality(ScoresOf(now)) <= 1
    /\ risk_analysis' = Some(CalculateOverallRisk(health_metrics, mood_ratings))
    /\ requests' = [requests EXCEPT ![r] =
          [pc |-> "commit", kind |-> "recalculate", date |-> now,
           existing |-> IF ScoresOf(now) = {} THEN 0
                        ELSE CHOOSE i \in ScoresOf(now) : TRUE]]
    /\ UNCHANGED <<burnout_scores, now>>
    /\ UNCHANGED <<store, metrics, all_records, result, locals, pc, batch>>
    /\ UNCHANGED <<days_back, decay_factor, weights_out, health_metrics, mood_ratings>>

\* the commit: the row found is updated, or a new row is added
RecalculateCommit(r) ==
    /\ requests[r].pc = "commit"
    /\ requests[r].kind = "recalculate"
    /\ requests[r].existing = 0 => Len(burnout_scores) < MaxRows
    /\ LET analysis == CalculateOverallRisk(health_metrics, mood_ratings)
       IN  burnout_scores' =
              IF requests[r].existing # 0
                THEN [burnout_scores EXCEPT ![requests[r].existing] =
                         BurnoutScore(@.date, analysis)]
                ELSE Append(burnout_scores, BurnoutScore(requests[r].date, analysis))
    /\ requests' = [requests EXCEPT ![r] = Idle]
    /\ UNCHANGED <<now, risk_analysis>>
    /\ UNCHANGED <<store, metrics, all_records, result, locals, pc, batch>>
    /\ UNCHANGED <<days_back, decay_factor, weights_out, health_metrics, mood_ratings>>

\* dashboard up to the commit: the latest row up to selected_date is looked
\* up; a calculation follows when there is none or it is older than 24 hours
DashboardLookup(r, selected_date) ==
    /\ requests[r].pc = "idle"
    /\ HasData
    /\ ShouldCalculate(LatestScore(selected_date))
    /\ risk_analysis' = Some(CalculateOverallRisk(health_metrics, mood_ratings))
    /\ requests' = [requests EXCEPT ![r] =
          [pc |-> "commit", kind |-> "dashboard", date |-> selected_date,
           existing |-> 0]]
    /\ UNCHANGED <<burnout_scores, now>>
    /\ UNCHANGED <<store, metrics, all_records, result, locals, pc, batch>>
    /\ UNCHANGED <<days_back, decay_factor, weights_out, health_metrics, mood_ratings>>

\* db.add(new_burnout); commit: a new row for selected_date
DashboardCommit(r) ==
    /\ requests[r].pc = "commit"
    /\ requests[r].kind = "dashboard"
    /\ Len(burnout_scores) < MaxRows
    /\ burnout_scores' =
          Append(burnout_scores,
                 BurnoutScore(requests[r].date,
                              CalculateOverallRisk(health_metrics, mood_ratings)))
    /\ requests' = [requests EXCEPT ![r] = Idle]
    /\ UNCHANGED <<now, risk_analysis>>
    /\ UNCHANGED <<store, metrics, all_records, result, locals, pc, batch>>
    /\ UNCHANGED <<days_back, decay_factor, weights_out, health_metrics, mood_ratings>>

\* a day passes
Tick ==
    /\ now < MaxNow
    /\ now' = now + 1
    /\ UNCHANGED <<burnout_scores, requests, risk_analysis>>
    /\ UNCHANGED <<store, metrics, all_records, result, locals, pc, batch>>
    /\ UNCHANGED <<days_back, decay_factor, weights_out, health_metrics, mood_ratings>>

NextScores ==
    \/ \E r \in Requests : CalculateBurnoutRisk(r)
    \/ \E r \in Requests : RecalculateLookup(r)
    \/ \E r \in Requests : RecalculateCommit(r)
    \/ \E r \in Requests : \E selected_date \in 1..now : DashboardLookup(r, selected_date)
    \/ \E r \in Requests : DashboardCommit(r)
    \/ Tick

SpecScores == InitScores /\ [][NextScores]_vars

-----------------------------------------------------------------------------
(* Specification SpecApp: the daily_metrics table under the routes of the   *)
(* package (src/app/core/routes.py): a mood is saved, a mood is deleted,    *)
(* wearable data are fetched, the dashboard of a date is viewed.  Each      *)
(* request runs to its end before the next one starts.                      *)

\* the keys of the dictionary get_all_daily_metrics returns that are followed
WhoopKeys == {"date", "recovery_score"}

\* what the wearable service returns for date d: a recovery score or no data
WhoopData(d) ==
    {[EmptyDict EXCEPT !["date"] = Some(d), !["recovery_score"] = v] :
        v \in Optional({40, 80})}

\* the mood ratings entered in the form
MoodEntries == {4}

\* any(v is not None for k, v in metrics.items() if k != 'date')
AnyData(whoop) == \E f \in WhoopKeys \ {"date"} : Has(whoop, f)

\* save_daily_metrics of the package on a dictionary with the given keys: the
\* row of its date gets those columns, the others stay (update) or are null
\* (insert)
PackageSaveKeys(table, metrics_data, keys) ==
    LET d == metrics_data["date"][1]
    IN  [table EXCEPT ![d] =
            Some([f \in Fields |->
                     IF f \in keys THEN metrics_data[f]
                     ELSE IF table[d] = None THEN None ELSE table[d][1][f]])]

\* for i in range(1, 8): the days after the entry date that are recalculated
FutureDays == 7

\* if future_risk is not None: the row of date d is saved with it
SavedWithRisk(table, d, risk) ==
    IF risk = None THEN table
    ELSE PackageSaveDailyMetrics(table, [table[d][1] EXCEPT !["burnout_current"] = risk])

\* the loop over the days after d, from day d + i on: a row that exists is
\* scored against all_records, the list read before the loop
RECURSIVE RecalculateFuture(_, _, _, _)
RecalculateFuture(table, records, d, i) ==
    IF i > FutureDays \/ d + i > MaxDate THEN table
    ELSE IF table[d + i] = None THEN RecalculateFuture(table, records, d, i + 1)
    ELSE RecalculateFuture(
             SavedWithRisk(table, d + i, GetBurnoutRiskScore(table[d + i][1], records)),
             records, d, i + 1)

\* if new_risk is not None: the row of d is saved with it, then the loop
RecalculateWith(table, records, d, new_risk) ==
    IF new_risk = None THEN table
    ELSE RecalculateFuture(SavedWithRisk(table, d, new_risk), records, d, 1)

RecalculateOn(table, records, d) ==
    RecalculateWith(table, records, d, GetBurnoutRiskScore(table[d][1], records))

\* updated_record and all_records are read back, then the recalculation
Recalculate(table, d) == RecalculateOn(table, GetDailyMetrics(table), d)

InitApp ==
    /\ store = [d \in Dates |-> None]
    /\ metrics = EmptyDict
    /\ all_records = <<>>
    /\ result = None
    /\ locals = NoLocals
    /\ pc = "idle"
    /\ days_back = 0
    /\ decay_factor = DefaultDecay
    /\ weights_out = <<>>
    /\ batch = NoBatch
    /\ health_metrics = <<>>
    /\ mood_ratings = <<>>
    /\ risk_analysis = None
    /\ burnout_scores = <<>>
    /\ now = 1
    /\ requests = NoRequests

\* POST input_mood: the mood is saved with the wearable data of the date, or
\* with the date alone when there are none; then the scores are recalculated
InputMood(d, mood, whoop) ==
    /\ store' =
          Recalculate(
              PackageSaveKeys(store, [whoop EXCEPT !["mood_rating"] = Some(mood)],
                              (IF AnyData(whoop) THEN WhoopKeys ELSE {"date"})
                                  \cup MoodKeys),
              d)
    /\ UNCHANGED <<metrics, all_records, result, locals, pc, batch>>
    /\ UNCHANGED <<days_back, decay_factor, weights_out>>
    /\ UNCHANGED <<health_metrics, mood_ratings, risk_analysis>>
    /\ UNCHANGED <<burnout_scores, now, requests>>

\* delete_mood: delete_mood_data sets mood_rating of the row to null
DeleteMood(d) ==
    /\ store[d] # None
    /\ store' = PackageSaveKeys(store, [EmptyDict EXCEPT !["date"] = Some(d)], MoodKeys)
    /\ UNCHANGED <<metrics, all_records, result, locals, pc, batch>>
    /\ UNCHANGED <<days_back, decay_factor, weights_out>>
    /\ UNCHANGED <<health_metrics, mood_ratings, risk_analysis>>
    /\ UNCHANGED <<burnout_scores, now, requests>>

\* POST fetch_whoop_data: the wearable data of the date are saved
ManualFetchData(d, whoop) ==
    /\ AnyData(whoop)
    /\ store' = PackageSaveKeys(store, whoop, WhoopKeys)
    /\ UNCHANGED <<metrics, all_records, result, locals, pc, batch>>
    /\ UNCHANGED <<days_back, decay_factor, weights_out>>
    /\ UNCHANGED <<health_metrics, mood_ratings, risk_analysis>>
    /\ UNCHANGED <<burnout_scores, now, requests>>

\* dashboard of date d: a row with a recovery score and no stored score is
\* scored against the whole table and saved
DashboardView(d) ==
    /\ store[d] # None
    /\ ~Has(store[d][1], "burnout_current")
    /\ Has(store[d][1], "recovery_score")
    /\ store' = PackageSaveDailyMetrics(store,
                    [store[d][1] EXCEPT !["burnout_current"] =
                        GetBurnoutRiskScore(store[d][1], GetDailyMetrics(store))])
    /\ UNCHANGED <<metrics, all_records, result, locals, pc, batch>>
    /\ UNCHANGED <<days_back, decay_factor, weights_out>>
    /\ UNCHANGED <<health_metrics, mood_ratings, risk_analysis>>
    /\ UNCHANGED <<burnout_scores, now, requests>>

NextApp ==
    \/ \E d \in Dates : \E mood \in MoodEntries : \E whoop \in WhoopData(d) :
          InputMood(d, mood, whoop)
    \/ \E d \in Dates : DeleteMood(d)
    \/ \E d \in Dates : \E whoop \in WhoopData(d) : ManualFetchData(d, whoop)
    \/ \E d \in Dates : DashboardView(d)

SpecApp == InitApp /\ [][NextApp]_vars

-----------------------------------------------------------------------------
(* Claims *)

Scored == pc = "done" /\ result # None

Window == 1..Len(locals.all_metrics)

\* C1: with the current day's recovery_score present and every field in its
\* valid range, get_burnout_risk_score returns a number r with 0 <= r <= 100.
C1_Bounds ==
    (pc = "done" /\ metrics # EmptyDict /\ Has(metrics, "recovery_score"))
        => /\ result # None
           /\ RLe(R(0), result[1])
           /\ RLe(result[1], R(100))

C1_Witness ==
    /\ Scored
    /\ metrics["recovery_score"] = Some(0)
    /\ metrics["strain"] = Some(210)
    /\ all_records # <<>>

\* C2: get_burnout_risk_score returns None if and only if the current-day
\* record is empty or has no recovery_score, whatever the other fields and
\* the history hold.
C2_NoneIffNoRecovery ==
    pc = "done" =>
        (result = None <=> (metrics = EmptyDict \/ metrics["recovery_score"] = None))

C2_Witness ==
    /\ pc = "done"
    /\ result = None
    /\ metrics # EmptyDict
    /\ Has(metrics, "mood_rating") /\ Has(metrics, "hrv") /\ Has(metrics, "strain")
    /\ all_records # <<>>
    /\ Has(all_records[1], "recovery_score")

\* C3: lowering only the current day's recovery_score never lowers the score.
C3_RecoveryMonotone ==
    Scored =>
        \A v \in CallVals("recovery_score") :
            v < metrics["recovery_score"][1] =>
                RLe(result[1],
                    GetBurnoutRiskScore([metrics EXCEPT !["recovery_score"] = Some(v)],
                                        all_records)[1])

C3_Witness ==
    /\ Scored
    /\ metrics["recovery_score"] = Some(100)
    /\ Has(metrics, "strain")
    /\ all_records # <<>>
    /\ RLt(result[1],
           GetBurnoutRiskScore([metrics EXCEPT !["recovery_score"] = Some(50)],
                               all_records)[1])

\* C4: the time-decay weight is non-increasing with age: position 1 (the
\* current day) has the highest time weight and the oldest day the lowest.
C4_RecentDaysWeighMore ==
    Scored =>
        \A i, j \in Window :
            i < j => RLe(locals.time_weights[j], locals.time_weights[i])

\* C5 as stated: the current day has only recovery_score 70, the history is
\* empty; recovery risk is 30, the four other components are 50, and the
\* score is 45.5.
OnlyRecovery70 ==
    /\ metrics # EmptyDict
    /\ metrics["recovery_score"] = Some(70)
    /\ \A f \in Fields \ {"recovery_score", "date"} : metrics[f] = None
    /\ all_records = <<>>

NeutralFallbackComponents ==
    /\ locals.risk.recovery = R(30)
    /\ locals.risk.hrv = R(50)
    /\ locals.risk.sleep = R(50)
    /\ locals.risk.strain_recovery = R(50)
    /\ locals.risk.mood = R(50)

C5_Original ==
    (pc = "done" /\ OnlyRecovery70) =>
        /\ result # None
        /\ NeutralFallbackComponents
        /\ result[1] = Q(455, 10)

\* C5 amended: in that scenario the components are 30 and four times 50, and
\* the score is 45.
C5_NeutralFallback ==
    (pc = "done" /\ OnlyRecovery70) =>
        /\ result # None
        /\ NeutralFallbackComponents
        /\ result[1] = R(45)

C5_Witness == pc = "done" /\ OnlyRecovery70 /\ result # None

\* C6: calculate_time_exponential_weights(n, decay) returns n positive weights
\* that sum to 1, each the next one times the decay factor (0.8 by default);
\* for n = 1 the single weight is 1.
C6_TimeWeights ==
    pc = "done" =>
        /\ Len(weights_out) = days_back
        /\ \A i \in 1..days_back : RLt(R(0), weights_out[i])
        /\ RSum(weights_out) = R(1)
        /\ \A i \in 1..(days_back - 1) :
              weights_out[i] = RMul(decay_factor, weights_out[i + 1])
        /\ days_back = 1 => weights_out = <<R(1)>>

C6_Witness ==
    /\ pc = "done"
    /\ days_back = MaxDaysBack
    /\ decay_factor = Q(8, 10)
    /\ Len(weights_out) = MaxDaysBack

\* C8: for a single-day window with strain and recovery_score present, the
\* strain-balance risk is 100 when recovery_score is 0, and otherwise, with
\* ratio = (strain / 21 * 100) / recovery_score: 20 below 0.7,
\* 30 + (ratio - 0.7) * 100 on [0.7, 1.0), 60 + (ratio - 1.0) * 80 on
\* [1.0, 1.5), 30 at exactly 0.7, 60 at exactly 1.0 and 100 at exactly 1.5.
ClaimedRatio ==
    RDiv(RMul(Q(metrics["strain"][1], 210), R(100)), R(metrics["recovery_score"][1]))

StrainBalanceMapAt(ratio, risk) ==
    /\ RLt(ratio, Q(7, 10)) => risk = R(20)
    /\ (RLe(Q(7, 10), ratio) /\ RLt(ratio, R(1)))
          => risk = RAdd(R(30), RMul(RSub(ratio, Q(7, 10)), R(100)))
    /\ (RLe(R(1), ratio) /\ RLt(ratio, Q(15, 10)))
          => risk = RAdd(R(60), RMul(RSub(ratio, R(1)), R(80)))
    /\ ratio = Q(7, 10) => risk = R(30)
    /\ ratio = R(1) => risk = R(60)
    /\ ratio = Q(15, 10) => risk = R(100)

C8_StrainBalanceMap ==
    (Scored /\ all_records = <<>> /\ Has(metrics, "strain")) =>
        IF metrics["recovery_score"][1] = 0
          THEN locals.risk.strain_recovery = R(100)
          ELSE StrainBalanceMapAt(ClaimedRatio, locals.risk.strain_recovery)

C8_Witness ==
    /\ Scored
    /\ all_records = <<>>
    /\ metrics["strain"] = Some(147)
    /\ metrics["recovery_score"] = Some(100)
    /\ locals.risk.strain_recovery = R(30)

\* C9 as stated: for each of the five components, if no day of the window has
\* the fields the component needs, the component's risk is 50 and a number is
\* returned.
CallWindow == AllMetrics(metrics, all_records)

ComponentNames == {"recovery", "hrv", "sleep", "strain_recovery", "mood"}

\* the window holds no day with the fields component c is computed from
NoData(c, am) ==
    CASE c = "recovery"        -> DaysWith(am, {"recovery_score"}) = {}
      [] c = "hrv"             -> DaysWith(am, {"hrv"}) = {}
      [] c = "strain_recovery" -> DaysWith(am, {"strain", "recovery_score"}) = {}
      [] c = "mood"            -> DaysWith(am, {"mood_rating"}) = {}
      [] c = "sleep"           ->
            \A i \in 1..Len(am) :
                \A f \in {"sleep_quality", "sleep_efficiency", "sleep_consistency",
                          "total_sleep_time", "deep_sleep_time", "rem_sleep_time"} :
                    ~HasField(am[i], f)

C9_Original ==
    pc = "done" =>
        \A c \in ComponentNames :
            NoData(c, CallWindow) => (result # None /\ locals.risk[c] = R(50))

\* C9 amended: when the current day has a recovery_score, a number is
\* returned, and each of the HRV, sleep, strain-balance and mood components
\* whose fields no day of the window has is exactly 50; the recovery
\* component then always has data.
C9_PartialData ==
    (pc = "done" /\ metrics # EmptyDict /\ Has(metrics, "recovery_score")) =>
        /\ result # None
        /\ ~NoData("recovery", CallWindow)
        /\ \A c \in ComponentNames \ {"recovery"} :
              NoData(c, CallWindow) => locals.risk[c] = R(50)

C9_Witness ==
    /\ Scored
    /\ all_records # <<>>
    /\ NoData("hrv", CallWindow)
    /\ NoData("sleep", CallWindow)
    /\ ~NoData("mood", CallWindow)
    /\ ~NoData("strain_recovery", CallWindow)

\* C10: the per-day weights of a computation are non-negative and sum to 1;
\* they are the time weight times the completeness, divided by the sum of
\* these products, or 1 on the current day and 0 elsewhere when that sum is 0;
\* a missing day has weight 0.
ClaimedCompleteness(o) ==
    IF o = None THEN R(0)
    ELSE RDiv(R(Cardinality({f \in {"recovery_score", "mood_rating", "hrv", "strain"} :
                                  o[1][f] # None})), R(4))

ClaimedCombined ==
    [i \in Window |->
        RMul(locals.time_weights[i], ClaimedCompleteness(locals.all_metrics[i]))]

C10_Weights ==
    Scored =>
        /\ Len(locals.normalized_weights) = Len(locals.all_metrics)
        /\ \A i \in Window : RLe(R(0), locals.normalized_weights[i])
        /\ RSum(locals.normalized_weights) = R(1)
        /\ \A i \in Window :
              locals.all_metrics[i] = None => locals.normalized_weights[i] = R(0)
        /\ IF RLt(R(0), RSum(ClaimedCombined))
             THEN \A i \in Window :
                     locals.normalized_weights[i] =
                         RDiv(ClaimedCombined[i], RSum(ClaimedCombined))
             ELSE \A i \in Window :
                     locals.normalized_weights[i] = IF i = 1 THEN R(1) ELSE R(0)

C10_Witness ==
    /\ Scored
    /\ \E i \in Window : locals.all_metrics[i] = None
    /\ \E i \in Window : i > 1 /\ RLt(R(0), locals.normalized_weights[i])
    /\ \E i, j \in Window :
          /\ locals.all_metrics[i] # None /\ locals.all_metrics[j] # None
          /\ Completeness(locals.all_metrics[i]) # Completeness(locals.all_metrics[j])

\* the records of the history dated i days before the current day
RecordsDated(i) ==
    {all_records[k] : k \in {j \in 1..Len(all_records) :
                                 all_records[j]["date"] = Some(metrics["date"][1] - i)}}

\* entry i of the returned list is a record dated i days before, or a gap
AlignedEntries ==
    /\ Len(result[1]) = days_back
    /\ \A i \in 1..days_back :
          IF RecordsDated(i) = {} THEN result[1][i] = None
          ELSE result[1][i] # None /\ result[1][i][1] \in RecordsDated(i)

\* C11 as stated: for a current day with a date, get_prior_metrics returns
\* exactly days_back entries; entry i is the record dated i days before the
\* current date, or null when there is none.
C11_Original ==
    (pc = "done" /\ Has(metrics, "date")) => AlignedEntries

\* C11 amended: this holds when the history is not empty; for an empty
\* history the returned list is empty.
C11_AlignedLookup ==
    (pc = "done" /\ Has(metrics, "date")) =>
        IF all_records = <<>> THEN result[1] = <<>> ELSE AlignedEntries

C11_Witness ==
    /\ pc = "done"
    /\ Has(metrics, "date")
    /\ days_back >= 3
    /\ Len(all_records) = 2
    /\ result[1][1] = None
    /\ result[1][2] # None
    /\ result[1][3] = None

\* C12: after the dashboard has computed the score of the selected date, the
\* stored record of that date holds the score as its burnout_current.
C12_ScorePersisted ==
    (pc = "done" /\ result # None) =>
        /\ store[metrics["date"][1]] # None
        /\ store[metrics["date"][1]][1]["burnout_current"] = result

\* the mean of the stored burnout_current values of the prior window days
\* of date d in table t, <<>> when no prior day has one
StoredPriorMean(t, d) ==
    LET prior == {e \in Dates : e < d /\ d - e <= DaysBack /\ t[e] # None
                                    /\ Has(t[e][1], "burnout_current")}
    IN  IF prior = {} THEN None
        ELSE Some(RDiv(SumOver([e \in prior |-> t[e][1]["burnout_current"][1]], prior),
                       R(Cardinality(prior))))

ClaimedTrend(t, d, overall) ==
    IF StoredPriorMean(t, d) = None THEN R(0)
    ELSE RSub(overall, StoredPriorMean(t, d)[1])

\* C13: once the calculator has run for a date and its score is saved, the
\* date's stored burnout_trend is the score minus the mean of the stored
\* burnout_current of the prior window days that have one, or 0 when none has.
C13_TrendWritten ==
    \A d \in Dates :
        (batch # NoBatch /\ batch.job[d].pc = "done" /\ batch.job[d].new_risk # None) =>
            \E t \in {store, batch.table0} :
                store[d][1]["burnout_trend"] =
                    Some(ClaimedTrend(t, d, batch.job[d].new_risk[1]))

\* the table after the jobs of dates d, d + 1, ... have run one after another
RECURSIVE BatchInOrder(_, _)
BatchInOrder(t, d) ==
    IF d > MaxDate THEN t
    ELSE IF t[d] = None THEN BatchInOrder(t, d + 1)
    ELSE LET new_risk == GetBurnoutRiskScore(t[d][1], GetDailyMetrics(t))
         IN  IF new_risk = None THEN BatchInOrder(t, d + 1)
             ELSE BatchInOrder(
                      PackageSaveDailyMetrics(t,
                          [t[d][1] EXCEPT !["burnout_current"] = new_risk]),
                      d + 1)

\* C14: whatever the order and interleaving of the compute and persist steps
\* of the jobs, a date whose job has finished holds the row, burnout_current
\* included, that the jobs run one after another in date order leave.
C14_OrderIndependent ==
    batch # NoBatch =>
        \A d \in Dates :
            batch.job[d].pc = "done" => store[d] = BatchInOrder(batch.table0, 1)[d]

\* the job of the last date has saved a new score while the job of the day
\* before, which has a stored score, is between its compute and persist steps
C14_Witness ==
    /\ batch # NoBatch
    /\ batch.job[MaxDate].pc = "done"
    /\ batch.job[MaxDate].new_risk # None
    /\ store[MaxDate] # batch.table0[MaxDate]
    /\ batch.job[MaxDate - 1].pc = "computed"
    /\ Has(store[MaxDate - 1][1], "burnout_current")

\* the current day {recovery_score 50, mood_rating 5, hrv 60, strain 10,
\* sleep_quality 70} with an empty history
Scenario50 ==
    /\ metrics # EmptyDict
    /\ metrics["recovery_score"] = Some(50)
    /\ metrics["mood_rating"] = Some(5)
    /\ metrics["hrv"] = Some(60)
    /\ metrics["strain"] = Some(100)
    /\ metrics["sleep_quality"] = Some(70)
    /\ all_records = <<>>

Within(x, y, tolerance) == RLe(RAbs(RSub(x, y)), tolerance)

\* C15: in that scenario the recovery risk is 50, the HRV risk 50, the sleep
\* risk 30, the strain-balance risk 55 to the nearest unit, the mood risk 55.6
\* to the nearest tenth, and the returned score is within 0.1 of 49.43.
C15_Scenario ==
    (pc = "done" /\ Scenario50) =>
        /\ result # None
        /\ locals.risk.recovery = R(50)
        /\ locals.risk.hrv = R(50)
        /\ locals.risk.sleep = R(30)
        /\ Within(locals.risk.strain_recovery, R(55), Q(1, 2))
        /\ Within(locals.risk.mood, Q(556, 10), Q(5, 100))
        /\ Within(result[1], Q(4943, 100), Q(1, 10))

C15_Witness == pc = "done" /\ Scenario50 /\ result # None

\* the number of records of health_metrics that have field f
Count(f) == Cardinality({i \in 1..Len(health_metrics) : health_metrics[i][f] # None})

ClaimedDataPoints ==
      Count("recovery_score")
    + Len(mood_ratings)
    + Count("hrv")
    + (IF Count("sleep_quality_score") > Count("sleep_duration_minutes")
         THEN Count("sleep_quality_score") ELSE Count("sleep_duration_minutes"))
    + Cardinality({i \in 1..Len(health_metrics) :
                      health_metrics[i]["day_strain"] # None
                          /\ health_metrics[i]["recovery_score"] # None})

\* C16: data_points_used is the sum of the data points of the five
\* components; the confidence is min(100, data_points_used / 30 * 100), lies
\* in [0, 100], does not decrease with the number of data points and is 100
\* exactly when 30 or more data points are used.
C16_Confidence ==
    pc = "done" =>
        LET a  == risk_analysis[1]
            dp == a.data_points_used
        IN  /\ dp = ClaimedDataPoints
            /\ a.confidence = (IF dp >= 30 THEN R(100) ELSE Q(dp * 100, 30))
            /\ RLe(R(0), a.confidence) /\ RLe(a.confidence, R(100))
            /\ \A n \in 0..dp : RLe(Confidence(n), a.confidence)
            /\ a.confidence = R(100) <=> dp >= 30
            /\ Within(a.confidence_score, a.confidence, Q(5, 100))
            /\ a.confidence_score = R(100) <=> dp >= 30

C16_Witness ==
    /\ pc = "done"
    /\ risk_analysis[1].data_points_used > 30
    /\ risk_analysis[1].confidence = R(100)
    /\ Len(mood_ratings) > 0
    /\ \E i \in 1..Len(health_metrics) : health_metrics[i]["hrv"] = None

\* C17: an execution for a current day with a recovery_score divides by zero
\* nowhere, in get_burnout_risk_score or in compute_sleep_quality_score: the
\* except clause is not entered and no divisor of the execution is zero.
C17_NoZeroDivision ==
    (pc = "done" /\ metrics # EmptyDict /\ Has(metrics, "recovery_score")) =>
        /\ result # None
        /\ locals.error = FALSE
        /\ \A x \in Divisors(locals.all_metrics) : x # R(0)

\* recovery_score 0 with a strain, total_sleep_time 0 with a deep sleep time,
\* a day without data, and every prior day of the window missing or empty
C17_Witness ==
    /\ Scored
    /\ metrics["recovery_score"] = Some(0)
    /\ Has(metrics, "strain")
    /\ metrics["total_sleep_time"] = Some(0)
    /\ Has(metrics, "deep_sleep_time")
    /\ Len(locals.all_metrics) = DaysBack + 1
    /\ \E i \in Window :
          locals.all_metrics[i] # None /\ Completeness(locals.all_metrics[i]) = R(0)
    /\ \A i \in Window :
          i > 1 => (locals.all_metrics[i] = None
                       \/ Completeness(locals.all_metrics[i]) = R(0))

\* the days of the window of the last call that have a recovery_score
RecoveryDays == DaysWith(locals.all_metrics, {"recovery_score"})

DayRecoveryRisk(i) == RSub(R(100), R(locals.all_metrics[i][1]["recovery_score"][1]))

\* C18: the recovery component lies between the smallest and the largest
\* 100 - recovery_score of the window days that have a recovery_score (and
\* equals 100 - r when all of them have the same score r), whatever the
\* other days of the window hold.
C18_RecoveryAverage ==
    (Scored /\ RecoveryDays # {}) =>
        /\ \E i \in RecoveryDays : RLe(DayRecoveryRisk(i), locals.risk.recovery)
        /\ \E i \in RecoveryDays : RLe(locals.risk.recovery, DayRecoveryRisk(i))

\* the weighted HRV and mood scores of the last call before a trend is blended in
UnblendedHrv == Weighted(HrvRiskValues(locals.all_metrics), locals.normalized_weights)

UnblendedMood == Weighted(MoodRiskValues(locals.all_metrics), locals.normalized_weights)

\* C19: when the HRV (the mood) trend is positive and blended in, the
\* component is at least the weighted score it is blended into.
C19_PositiveTrendRaisesRisk ==
    Scored =>
        /\ RLt(R(0), locals.hrv_trend) => RLe(UnblendedHrv, locals.risk.hrv)
        /\ RLt(R(0), locals.mood_trend) => RLe(UnblendedMood, locals.risk.mood)

\* the values of field f on the three most recent days of the window that
\* have it, the most recent first
ThreeMostRecent(f) ==
    ValuesAt(locals.all_metrics, f,
             SubSeq(Ascending(DaysWith(locals.all_metrics, {f})), 1, 3))

\* C20: when three or more days of the window have HRV (mood) data, the HRV
\* (mood) trend is the trend of the three most recent days that have it,
\* wherever in the window they are.
C20_TrendOfThreeMostRecent ==
    Scored =>
        /\ Cardinality(DaysWith(locals.all_metrics, {"hrv"})) >= 3
              => locals.hrv_trend = TrendOf(ThreeMostRecent("hrv"), R(20), Q(25, 10))
        /\ Cardinality(DaysWith(locals.all_metrics, {"mood_rating"})) >= 3
              => locals.mood_trend = TrendOf(ThreeMostRecent("mood_rating"), R(4), Q(125, 10))

\* the positions of the slice all_metrics[:3] of the last call that have an
\* HRV value, and the value at a position
HrvUsedDays ==
    {i \in Window : i <= RecentSpan /\ HasField(locals.all_metrics[i], "hrv")}

HrvAt(i) == R(locals.all_metrics[i][1]["hrv"][1])

\* the HRV trend is computed: three days of the window have HRV data and two
\* of them are in the slice
HrvTrendComputed ==
    /\ Cardinality(DaysWith(locals.all_metrics, {"hrv"})) >= 3
    /\ Cardinality(HrvUsedDays) >= 2

NewestHrvDay == CHOOSE i \in HrvUsedDays : \A j \in HrvUsedDays : i <= j

OldestHrvDay == CHOOSE i \in HrvUsedDays : \A j \in HrvUsedDays : j <= i

\* the mean of the HRV values used, the one at position i left out
MeanOfOtherHrv(i) ==
    RDiv(SumOver([j \in HrvUsedDays \ {i} |-> HrvAt(j)], HrvUsedDays \ {i}),
         R(Cardinality(HrvUsedDays) - 1))

\* C21: whenever the HRV trend is computed, a most recent HRV value below the
\* mean of the older values used gives a trend > 0; a most recent value at or
\* above that mean gives a trend <= 0, and the HRV risk is then the weighted
\* score with nothing blended in.
C21_DecliningHrvIsPositive ==
    (Scored /\ HrvTrendComputed) =>
        IF RLt(HrvAt(NewestHrvDay), MeanOfOtherHrv(NewestHrvDay))
          THEN RLt(R(0), locals.hrv_trend)
          ELSE RLe(locals.hrv_trend, R(0)) /\ locals.risk.hrv = UnblendedHrv

\* a declining series of three values, its trend blended into the HRV risk
C21_Witness ==
    /\ Scored
    /\ HrvTrendComputed
    /\ Cardinality(HrvUsedDays) = 3
    /\ RLt(HrvAt(NewestHrvDay), MeanOfOtherHrv(NewestHrvDay))
    /\ RLt(R(0), locals.hrv_trend)
    /\ locals.risk.hrv # UnblendedHrv

\* the trend the code's formula gives when the value at position i is the one
\* compared against the mean of the others
ClaimedHrvTrend(i) ==
    RMul(Clamp(R(-20), R(20), RNeg(RSub(HrvAt(i), MeanOfOtherHrv(i)))), Q(25, 10))

\* C22 as stated: with three HRV values used, the trend is
\* -1 * (oldest - mean(two more recent)), limited to [-20, 20], times 2.5.
C22_Original ==
    (Scored /\ HrvTrendComputed /\ Cardinality(HrvUsedDays) = 3) =>
        locals.hrv_trend = ClaimedHrvTrend(OldestHrvDay)

\* C22: the HRV trend is -1 * (newest - mean(older values used)) over the HRV
\* values used, limited to [-20, 20] and then multiplied by 2.5.
C22_NewestAgainstOlder ==
    (Scored /\ HrvTrendComputed) => locals.hrv_trend = ClaimedHrvTrend(NewestHrvDay)

\* three values used, the limit reached: the difference is beyond 20
C22_Witness ==
    /\ Scored
    /\ HrvTrendComputed
    /\ Cardinality(HrvUsedDays) = 3
    /\ RLt(R(20), RSub(MeanOfOtherHrv(NewestHrvDay), HrvAt(NewestHrvDay)))
    /\ locals.hrv_trend = R(50)

SubMetrics ==
    {"sleep_quality", "sleep_efficiency", "sleep_consistency", "deep_sleep_time",
     "rem_sleep_time"}

StageMetrics == {"deep_sleep_time", "rem_sleep_time"}

\* sub-metric k of the record of the last call can be computed
Computable(k) ==
    /\ Has(metrics, k)
    /\ k \in StageMetrics =>
          Has(metrics, "total_sleep_time") /\ metrics["total_sleep_time"][1] > 0

ClaimedSubWeight(k) ==
    CASE k = "sleep_quality" -> Q(4, 10)
      [] k \in {"sleep_efficiency", "sleep_consistency"} -> Q(3, 10)
      [] k \in StageMetrics -> Q(1, 10)

StagePercent(k) == Q(100 * metrics[k][1], metrics["total_sleep_time"][1])

ClaimedSubScore(k) ==
    IF k \in StageMetrics
      THEN RSub(R(100),
                RMin(R(100),
                     RMul(RAbs(RSub(StagePercent(k),
                                    R(IF k = "deep_sleep_time" THEN 20 ELSE 23))),
                          R(5))))
      ELSE R(metrics[k][1])

ComputableSubMetrics == {k \in SubMetrics : Computable(k)}

ClaimedSleepScore ==
    Clamp(R(0), R(100),
          RDiv(SumOver([k \in ComputableSubMetrics |->
                           RMul(ClaimedSubScore(k), ClaimedSubWeight(k))],
                       ComputableSubMetrics),
               SumOver([k \in ComputableSubMetrics |-> ClaimedSubWeight(k)],
                       ComputableSubMetrics)))

\* C23: compute_sleep_quality_score returns null exactly when none of the five
\* sub-metrics is computable; otherwise it returns the sum of score * weight
\* over the computable ones divided by the sum of their weights, limited to
\* [0, 100], a value between 0 and 100.
C23_SleepQualityScore ==
    pc = "done" =>
        IF ComputableSubMetrics = {} THEN result = None
        ELSE /\ result = Some(ClaimedSleepScore)
             /\ RLe(R(0), result[1])
             /\ RLe(result[1], R(100))

\* only the two sleep stages are computable: the weights used sum to 0.2
C23_Witness ==
    /\ pc = "done"
    /\ ComputableSubMetrics = StageMetrics
    /\ result # None
    /\ RLt(R(0), result[1])

MoodRatings == 1..10

\* the score of the call of the last step had the current day's mood_rating
\* been v, everything else the same
ScoreWithMood(v) ==
    GetBurnoutRiskScore([metrics EXCEPT !["mood_rating"] = Some(v)], all_records)

\* C25: with the history and every other field of the current day the same,
\* a lower mood_rating of the current day gives a score at least as high.
C25_MoodMonotone ==
    (Scored /\ Has(metrics, "mood_rating")) =>
        \A v \in MoodRatings :
            v < metrics["mood_rating"][1] => RLe(result[1], ScoreWithMood(v)[1])

\* record r is dated one of the seven days before the current day of the call
InClaimedWindow(r) ==
    /\ Has(r, "date")
    /\ r["date"][1] \in (metrics["date"][1] - 7)..(metrics["date"][1] - 1)

\* the history of the call without its records outside those seven days
InWindowOnly == SelectSeq(all_records, InClaimedWindow)

\* C26: the call returns what it returns on the history without its records
\* dated outside the seven days before the current day; when no record is
\* inside, what it returns on the empty history.
C26_WindowLocality ==
    pc = "done" => result = GetBurnoutRiskScore(metrics, InWindowOnly)

\* a scored call whose history has records but none inside the window
C26_Witness ==
    /\ Scored
    /\ Len(all_records) >= 3
    /\ InWindowOnly = <<>>
    /\ Len(locals.all_metrics) = 8

\* record r without its stored burnout_current and burnout_trend
WithoutScores(r) == [r EXCEPT !["burnout_current"] = None, !["burnout_trend"] = None]

\* C27: the call returns what it returns when burnout_current and
\* burnout_trend are taken off the current-day record and off every record
\* of the history.
C27_IndependentOfStoredScores ==
    pc = "done" =>
        result = GetBurnoutRiskScore(WithoutScores(metrics),
                     [i \in 1..Len(all_records) |-> WithoutScores(all_records[i])])

\* a scored call that computed a nonzero trend against stored scores
C27_Witness ==
    /\ Scored
    /\ Has(metrics, "burnout_current")
    /\ PrevBurnout(locals.all_metrics) # {}
    /\ locals.burnout_trend # R(0)

\* C28: on records with every field in its valid range, each of the five
\* component risks of a scored call, trends blended in, is between 0 and 100,
\* and the returned score is the weighted sum itself: the final limit to
\* [0, 100] changes nothing.
C28_ComponentsInRange ==
    Scored =>
        /\ locals.error = FALSE
        /\ \A c \in ComponentNames :
              RLe(R(0), locals.risk[c]) /\ RLe(locals.risk[c], R(100))
        /\ result = Some(BurnoutRisk(locals.risk))

\* both trends blended in, the strain balance of the current day at its
\* highest (recovery_score 0 under a strain of 21)
C28_Witness ==
    /\ Scored
    /\ RLt(R(0), locals.hrv_trend)
    /\ RLt(R(0), locals.mood_trend)
    /\ metrics["recovery_score"] = Some(0)
    /\ metrics["strain"] = Some(210)

\* C29: the burnout_scores table holds at most one row for the user and a
\* date, whatever requests have run and however they interleaved.
C29_OneRowPerDate ==
    \A d \in 1..MaxNow : Cardinality(ScoresOf(d)) <= 1

\* C30: every stored burnout_current that is not null is the score
\* get_burnout_risk_score gives for the row as stored now against the table
\* as stored now.
C30_NoStaleScores ==
    \A d \in Dates :
        (store[d] # None /\ Has(store[d][1], "burnout_current")) =>
            store[d][1]["burnout_current"]
                = GetBurnoutRiskScore(store[d][1], GetDailyMetrics(store))

====
